---- MODULE Spec2Model ----
(***************************************************************************)
(* Model of the order placement handler of the pre-order backend           *)
(* (src/backend/app.py, place_order) together with the operations that     *)
(* change what it reads: update_menu_item, delete_menu_item, add_coupon,   *)
(* delete_coupon and the clock.                                            *)
(*                                                                         *)
(* The database is the committed content of the tables menu_items,         *)
(* coupons, orders and order_items.  Every request handler opens its own   *)
(* connection (get_db_connection) with autocommit off, so its INSERTs and  *)
(* its UPDATE stay in its own transaction (tx) until conn.commit() and are *)
(* discarded by conn.rollback() / conn.close().  The steps of one          *)
(* place_order call interleave with the steps of other requests.           *)
(*                                                                         *)
(* A SELECT reads the committed tables as they are when it runs.  Under a  *)
(* snapshot taken at the transaction's first SELECT (REPEATABLE READ) the  *)
(* coupon SELECT returns what it would have returned right after the       *)
(* catalog SELECT, which is one of the interleavings here.  Any statement  *)
(* and the commit may raise (DbError), and the connection may fail.        *)
(*                                                                         *)
(* Money is counted in units of 0.0001 (a hundredth of a cent), so that    *)
(* total * (pct / 100) is exact for whole-cent prices and whole            *)
(* percentages, as it is in Python's Decimal arithmetic.                   *)
(***************************************************************************)
EXTENDS Integers, Sequences, FiniteSets, TLC

VARIABLES
    menu_items,     \* table menu_items: id -> [name, price, is_available]
    coupons,        \* table coupons: set of committed rows
    next_coupon_id, \* AUTO_INCREMENT of coupons.id
    orders,         \* table orders: set of committed rows
    order_items,    \* table order_items: set of committed rows
    next_order_id,  \* AUTO_INCREMENT of orders.id
    now,            \* datetime.datetime.now()
    h,              \* per handler: position in place_order and its locals
    tx,             \* per handler: the uncommitted writes of its connection
    resp,           \* per handler: the HTTP response it returned
    canteen_resp,   \* the canteen's last deletion or status request, and its response
    session         \* the student UI's session state (src/frontend/app.py)

vars == <<menu_items, coupons, next_coupon_id, orders, order_items,
          next_order_id, now, h, tx, resp, canteen_resp, session>>

-----------------------------------------------------------------------------
(* Bounds of the model *)

MaxLines == 2       \* longest cart submitted
MaxOrders == 2      \* order ids handed out
MaxClock == 1       \* ticks of the clock
MaxCoupons == 1     \* coupon ids handed out
MaxQuantity == 2    \* most units in the cart of the student UI

-----------------------------------------------------------------------------
(* Values *)

\* SQL NULL / Python None for an optional number; a present number v is <<v>>
NULL == <<>>

\* Python None / '' for an optional string
NoCode == ""

\* a falsy student_id (absent from the JSON body)
NoStudent == 0

Cents(c) == c * 100

Handlers == {1, 2}

\* ids 1 and 2 are rows of menu_items, id 3 is in no row
MenuIds == {1, 2, 3}

Quantities == {-1, 0, 2}

StudentIds == {NoStudent, 7}

CouponCodes == {NoCode, "SAVE"}

Prices == {Cents(1500), Cents(10000)}

CartLines == [menu_item_id : MenuIds, quantity : Quantities]

Carts == UNION {[1..n -> CartLines] : n \in 0..MaxLines}

Min(a, b) == IF a <= b THEN a ELSE b

\* Python truthiness of an optional number: None and 0 are false
Truthy(x) == x # NULL /\ x[1] # 0

-----------------------------------------------------------------------------
(* place_order: the pure parts *)

\* the check of the requester id alone
MissingInputStudentOnly(student_id, items) == student_id = NoStudent

\* line 357: if not student_id or not items
MissingInput(student_id, items) == student_id = NoStudent \/ Len(items) = 0

\* the lookup with WHERE is_available = TRUE added
FetchAvailableMenuItems(items) ==
    LET item_ids == {items[i].menu_item_id : i \in 1..Len(items)}
    IN  [id \in {x \in item_ids \cap DOMAIN menu_items : menu_items[x].is_available}
            |-> menu_items[id]]

\* lines 371-377: the rows of menu_items whose id is IN item_ids, keyed by id
FetchMenuItems(items) ==
    LET item_ids == {items[i].menu_item_id : i \in 1..Len(items)}
    IN  [id \in (item_ids \cap DOMAIN menu_items) |-> menu_items[id]]

\* the check with < for <=
BadQuantityNegativeOnly(quantity) == quantity < 0

\* line 390: if quantity <= 0
BadQuantity(quantity) == quantity <= 0

Failure(status, message, arg) ==
    [ok |-> FALSE, status |-> status, message |-> message, arg |-> arg,
     total_amount |-> 0, order_items_data |-> <<>>]

OkLine == [ok |-> TRUE, status |-> 0, message |-> "", arg |-> "",
           total_amount |-> 0, order_items_data |-> <<>>]

\* the three checks with the quantity checked first
CheckLineQuantityFirst(item, menu_items_db) ==
    IF item.quantity <= 0
    THEN Failure(400, "Invalid quantity for item", ToString(item.menu_item_id))
    ELSE IF item.menu_item_id \notin DOMAIN menu_items_db
    THEN Failure(404, "Menu item not found", ToString(item.menu_item_id))
    ELSE IF ~menu_items_db[item.menu_item_id].is_available
    THEN Failure(400, "Item is currently unavailable",
                 menu_items_db[item.menu_item_id].name)
    ELSE OkLine

\* the three checks with the availability checked last
CheckLineAvailabilityLast(item, menu_items_db) ==
    IF item.menu_item_id \notin DOMAIN menu_items_db
    THEN Failure(404, "Menu item not found", ToString(item.menu_item_id))
    ELSE IF item.quantity <= 0
    THEN Failure(400, "Invalid quantity for item", ToString(item.menu_item_id))
    ELSE IF ~menu_items_db[item.menu_item_id].is_available
    THEN Failure(400, "Item is currently unavailable",
                 menu_items_db[item.menu_item_id].name)
    ELSE OkLine

\* lines 380-392: the three checks of one submitted line, in the code's order
CheckLine(item, menu_items_db) ==
    IF item.menu_item_id \notin DOMAIN menu_items_db
    THEN Failure(404, "Menu item not found", ToString(item.menu_item_id))
    ELSE IF ~menu_items_db[item.menu_item_id].is_available
    THEN Failure(400, "Item is currently unavailable",
                 menu_items_db[item.menu_item_id].name)
    ELSE IF BadQuantity(item.quantity)
    THEN Failure(400, "Invalid quantity for item", ToString(item.menu_item_id))
    ELSE OkLine

\* lines 379-401: the loop over the submitted lines, from line i on; it
\* returns at the first line that fails a check
RECURSIVE ValidateItems(_, _, _, _, _)
ValidateItems(items, menu_items_db, i, total_amount, order_items_data) ==
    IF i > Len(items)
    THEN [OkLine EXCEPT !.total_amount = total_amount,
                        !.order_items_data = order_items_data]
    ELSE LET checked == CheckLine(items[i], menu_items_db)
             price_at_order == menu_items_db[items[i].menu_item_id].price
         IN  IF ~checked.ok
             THEN checked
             ELSE ValidateItems(items, menu_items_db, i + 1,
                      total_amount + price_at_order * items[i].quantity,
                      Append(order_items_data,
                             [menu_item_id |-> items[i].menu_item_id,
                              quantity |-> items[i].quantity,
                              price_at_order |-> price_at_order]))

\* lines 407-412: SELECT ... FROM coupons WHERE code = %s AND is_active = TRUE
FindActiveCoupon(coupon_code) ==
    {c \in coupons : c.code = coupon_code /\ c.is_active}

\* the expiry compared with >= for >
CouponValidAtExpiry(coupon, t) ==
    /\ (coupon.valid_until = NULL \/ coupon.valid_until[1] >= t)
    /\ (coupon.max_uses = NULL \/ coupon.uses_count < coupon.max_uses[1])

\* the ceiling compared with <= for <
CouponValidAtCeiling(coupon, t) ==
    /\ (coupon.valid_until = NULL \/ coupon.valid_until[1] > t)
    /\ (coupon.max_uses = NULL \/ coupon.uses_count <= coupon.max_uses[1])

\* lines 415-419
CouponValid(coupon, t) ==
    /\ (coupon.valid_until = NULL \/ coupon.valid_until[1] > t)
    /\ (coupon.max_uses = NULL \/ coupon.uses_count < coupon.max_uses[1])

\* line 423: total_amount * (coupon['discount_percentage'] / 100)
PercentageOf(total_amount, pct) == (total_amount * pct) \div 100

\* the two discounts applied one after the other
DiscountAmountStacked(coupon, total_amount) ==
    (IF Truthy(coupon.discount_percentage)
     THEN PercentageOf(total_amount, coupon.discount_percentage[1]) ELSE 0)
    + (IF Truthy(coupon.discount_fixed)
       THEN Min(total_amount, coupon.discount_fixed[1]) ELSE 0)

\* the fixed branch taken without testing discount_fixed, an absent amount
\* capping nothing
DiscountAmountElseFixed(coupon, total_amount) ==
    IF Truthy(coupon.discount_percentage)
    THEN PercentageOf(total_amount, coupon.discount_percentage[1])
    ELSE IF coupon.discount_fixed # NULL
    THEN Min(total_amount, coupon.discount_fixed[1])
    ELSE total_amount

\* lines 421-425
DiscountAmount(coupon, total_amount) ==
    IF Truthy(coupon.discount_percentage)
    THEN PercentageOf(total_amount, coupon.discount_percentage[1])
    ELSE IF Truthy(coupon.discount_fixed)
    THEN Min(total_amount, coupon.discount_fixed[1])
    ELSE 0

-----------------------------------------------------------------------------
(* State of a handler *)

NoCoupon ==
    [id |-> 0, code |-> NoCode, discount_percentage |-> NULL,
     discount_fixed |-> NULL, valid_until |-> NULL, max_uses |-> NULL,
     uses_count |-> 0, is_active |-> FALSE]

Idle ==
    [pc |-> "idle", student_id |-> NoStudent, items |-> <<>>,
     supplied_code |-> NoCode, coupon_code |-> NoCode,
     total_amount |-> 0, discount_amount |-> 0, final_amount |-> 0,
     order_items_data |-> <<>>, coupon |-> NoCoupon, valid |-> FALSE,
     order_id |-> 0]

NoTx == [orders |-> {}, order_items |-> {}, coupon_inc |-> {}]

NoResp == [status |-> 0, message |-> "", arg |-> "", order_id |-> 0]

Response(status, message, arg, order_id) ==
    [status |-> status, message |-> message, arg |-> arg, order_id |-> order_id]

NoRequest == [op |-> "", id |-> 0, status |-> 0, message |-> ""]

\* the JSON object of a response: line 458 for a placed order, a message alone
\* for every failure
Body(response) ==
    IF response.status = 201
    THEN [message |-> response.message, order_id |-> response.order_id]
    ELSE [message |-> response.message]

\* st.session_state before a login: no user, no cart; waiting is set while
\* the script is inside place_order_api
NoSession == [logged_in |-> FALSE, has_cart |-> FALSE, cart |-> <<>>, waiting |-> FALSE]

InFlight == {r \in Handlers : h[r].pc \notin {"idle", "done"}}

Init ==
    /\ menu_items = (1 :> [name |-> "Samosa", price |-> Cents(1500), is_available |-> TRUE]
                  @@ 2 :> [name |-> "Thali", price |-> Cents(10000), is_available |-> TRUE])
    /\ coupons = {}
    /\ next_coupon_id = 1
    /\ orders = {}
    /\ order_items = {}
    /\ next_order_id = 1
    /\ now = 0
    /\ h = [r \in Handlers |-> Idle]
    /\ tx = [r \in Handlers |-> NoTx]
    /\ resp = [r \in Handlers |-> NoResp]
    /\ canteen_resp = NoRequest
    /\ session = NoSession

-----------------------------------------------------------------------------
(* place_order: the steps of one request *)

Set(r, fields) == h' = [h EXCEPT ![r] = fields]

Finish(r, response) ==
    /\ h' = [h EXCEPT ![r].pc = "done"]
    /\ resp' = [resp EXCEPT ![r] = response]

\* lines 352-362: read the JSON body, check it, open the connection
Accept(r, student_id, items, coupon_code) ==
    /\ h[r].pc = "idle"
    /\ next_order_id + Cardinality(InFlight) <= MaxOrders
    /\ LET got == [Idle EXCEPT !.student_id = student_id, !.items = items,
                               !.supplied_code = coupon_code,
                               !.coupon_code = coupon_code]
       IN  IF MissingInput(student_id, items)
           THEN /\ Set(r, [got EXCEPT !.pc = "done"])
                /\ resp' = [resp EXCEPT ![r] =
                       Response(400, "Missing student ID or items", "", 0)]
           ELSE \/ /\ Set(r, [got EXCEPT !.pc = "select_items"])
                   /\ UNCHANGED resp
                \/ /\ Set(r, [got EXCEPT !.pc = "done"])
                   /\ resp' = [resp EXCEPT ![r] =
                          Response(500, "Database connection failed", "", 0)]
    /\ UNCHANGED <<menu_items, coupons, next_coupon_id, orders, order_items,
                   next_order_id, now, tx, canteen_resp>>

\* a request sent by a client other than the student UI's session
Receive(r, student_id, items, coupon_code) ==
    /\ Accept(r, student_id, items, coupon_code)
    /\ UNCHANGED session

\* lines 365-401 (and line 434 when no coupon code was sent)
ResolveItems(r) ==
    /\ h[r].pc = "select_items"
    /\ LET res == ValidateItems(h[r].items, FetchMenuItems(h[r].items), 1, 0, <<>>)
       IN  IF Len(h[r].items) = 0
           THEN Finish(r, Response(400, "No items in order", "", 0))
           ELSE IF ~res.ok
           THEN Finish(r, Response(res.status, res.message, res.arg, 0))
           ELSE /\ Set(r, [h[r] EXCEPT
                       !.total_amount = res.total_amount,
                       !.order_items_data = res.order_items_data,
                       !.final_amount = res.total_amount,
                       !.pc = IF h[r].coupon_code # NoCode
                              THEN "select_coupon" ELSE "insert_order"])
                /\ UNCHANGED resp
    /\ UNCHANGED <<menu_items, coupons, next_coupon_id, orders, order_items,
                   next_order_id, now, tx, canteen_resp, session>>

\* the coupon check without the reset of coupon_code of line 430
ApplyCouponKeepingCode(r) ==
    /\ h[r].pc = "select_coupon"
    /\ LET found == FindActiveCoupon(h[r].coupon_code)
           coupon == IF found = {} THEN NoCoupon ELSE CHOOSE c \in found : TRUE
           valid == found # {} /\ CouponValid(coupon, now)
           discount_amount == IF valid
                              THEN DiscountAmount(coupon, h[r].total_amount)
                              ELSE 0
       IN  Set(r, [h[r] EXCEPT
               !.coupon = coupon,
               !.valid = valid,
               !.discount_amount = discount_amount,
               !.final_amount = h[r].total_amount - discount_amount,
               !.pc = "insert_order"])
    /\ UNCHANGED <<menu_items, coupons, next_coupon_id, orders, order_items,
                   next_order_id, now, tx, resp, canteen_resp, session>>

\* lines 404-434
ApplyCoupon(r) ==
    /\ h[r].pc = "select_coupon"
    /\ LET found == FindActiveCoupon(h[r].coupon_code)
           coupon == IF found = {} THEN NoCoupon ELSE CHOOSE c \in found : TRUE
           valid == found # {} /\ CouponValid(coupon, now)
           discount_amount == IF valid
                              THEN DiscountAmount(coupon, h[r].total_amount)
                              ELSE 0
       IN  Set(r, [h[r] EXCEPT
               !.coupon = coupon,
               !.valid = valid,
               !.coupon_code = IF valid THEN h[r].coupon_code ELSE NoCode,
               !.discount_amount = discount_amount,
               !.final_amount = h[r].total_amount - discount_amount,
               !.pc = "insert_order"])
    /\ UNCHANGED <<menu_items, coupons, next_coupon_id, orders, order_items,
                   next_order_id, now, tx, resp, canteen_resp, session>>

\* the header INSERT on a connection with autocommit on
InsertOrderAutocommit(r) ==
    /\ h[r].pc = "insert_order"
    /\ orders' = orders \cup
                 {[id |-> next_order_id,
                   student_id |-> h[r].student_id,
                   total_amount |-> h[r].total_amount,
                   coupon_code |-> h[r].coupon_code,
                   discount_amount |-> h[r].discount_amount,
                   final_amount |-> h[r].final_amount,
                   status |-> "Pending"]}
    /\ next_order_id' = next_order_id + 1
    /\ Set(r, [h[r] EXCEPT !.order_id = next_order_id, !.pc = "insert_items"])
    /\ UNCHANGED <<menu_items, coupons, next_coupon_id, order_items, tx,
                   now, resp, canteen_resp, session>>

\* the header INSERT with cursor.lastrowid read before it ran
InsertOrderStaleId(r) ==
    /\ h[r].pc = "insert_order"
    /\ tx' = [tx EXCEPT ![r].orders =
                 {[id |-> next_order_id,
                   student_id |-> h[r].student_id,
                   total_amount |-> h[r].total_amount,
                   coupon_code |-> h[r].coupon_code,
                   discount_amount |-> h[r].discount_amount,
                   final_amount |-> h[r].final_amount,
                   status |-> "Pending"]}]
    /\ next_order_id' = next_order_id + 1
    /\ Set(r, [h[r] EXCEPT !.order_id = 0, !.pc = "insert_items"])
    /\ UNCHANGED <<menu_items, coupons, next_coupon_id, orders, order_items,
                   now, resp, canteen_resp, session>>

\* lines 437-442: INSERT INTO orders, inside the handler's transaction
InsertOrder(r) ==
    /\ h[r].pc = "insert_order"
    /\ tx' = [tx EXCEPT ![r].orders =
                 {[id |-> next_order_id,
                   student_id |-> h[r].student_id,
                   total_amount |-> h[r].total_amount,
                   coupon_code |-> h[r].coupon_code,
                   discount_amount |-> h[r].discount_amount,
                   final_amount |-> h[r].final_amount,
                   status |-> "Pending"]}]
    /\ next_order_id' = next_order_id + 1
    /\ Set(r, [h[r] EXCEPT !.order_id = next_order_id, !.pc = "insert_items"])
    /\ UNCHANGED <<menu_items, coupons, next_coupon_id, orders, order_items,
                   now, resp, canteen_resp, session>>

\* the test of the fetched row alone
UsesCouponAnyRow(r) == h[r].coupon # NoCoupon

\* line 454: if coupon_code and valid and coupon
UsesCoupon(r) == h[r].coupon_code # NoCode /\ h[r].valid /\ h[r].coupon # NoCoupon

\* the line INSERT with the price taken from the catalog as it is now
InsertOrderItemsCurrentPrice(r) ==
    /\ h[r].pc = "insert_items"
    /\ \A i \in 1..Len(h[r].order_items_data) :
           h[r].order_items_data[i].menu_item_id \in DOMAIN menu_items
    /\ tx' = [tx EXCEPT ![r].order_items =
                 {[order_id |-> h[r].order_id,
                   line |-> i,
                   menu_item_id |-> h[r].order_items_data[i].menu_item_id,
                   quantity |-> h[r].order_items_data[i].quantity,
                   price_at_order |->
                       menu_items[h[r].order_items_data[i].menu_item_id].price]
                  : i \in 1..Len(h[r].order_items_data)}]
    /\ Set(r, [h[r] EXCEPT !.pc = IF h[r].coupon_code # NoCode /\ h[r].valid
                                  THEN "increment" ELSE "commit"])
    /\ UNCHANGED <<menu_items, coupons, next_coupon_id, orders, order_items,
                   next_order_id, now, resp, canteen_resp, session>>

\* lines 445-451: executemany INSERT INTO order_items.  A line that names a
\* menu item deleted since the catalog was read fails the reference of
\* order_items.menu_item_id (lines 297-299): the statement raises (DbError).
InsertOrderItems(r) ==
    /\ h[r].pc = "insert_items"
    /\ \A i \in 1..Len(h[r].order_items_data) :
           h[r].order_items_data[i].menu_item_id \in DOMAIN menu_items
    /\ tx' = [tx EXCEPT ![r].order_items =
                 {[order_id |-> h[r].order_id,
                   line |-> i,
                   menu_item_id |-> h[r].order_items_data[i].menu_item_id,
                   quantity |-> h[r].order_items_data[i].quantity,
                   price_at_order |-> h[r].order_items_data[i].price_at_order]
                  : i \in 1..Len(h[r].order_items_data)}]
    /\ Set(r, [h[r] EXCEPT !.pc = IF UsesCoupon(r) THEN "increment" ELSE "commit"])
    /\ UNCHANGED <<menu_items, coupons, next_coupon_id, orders, order_items,
                   next_order_id, now, resp, canteen_resp, session>>

\* line 455: UPDATE coupons SET uses_count = uses_count + 1 WHERE id = %s.
\* The UPDATE takes the row's lock until the transaction ends, so it waits
\* while another transaction holds an uncommitted UPDATE of the same row.
IncrementCoupon(r) ==
    /\ h[r].pc = "increment"
    /\ \A r2 \in Handlers \ {r} : h[r].coupon.id \notin tx[r2].coupon_inc
    /\ tx' = [tx EXCEPT ![r].coupon_inc =
                 {c.id : c \in {c \in coupons : c.id = h[r].coupon.id}}]
    /\ Set(r, [h[r] EXCEPT !.pc = "commit"])
    /\ UNCHANGED <<menu_items, coupons, next_coupon_id, orders, order_items,
                   next_order_id, now, resp, canteen_resp, session>>

\* lines 457-458: conn.commit() publishes the transaction's writes at once
Commit(r) ==
    /\ h[r].pc = "commit"
    /\ orders' = orders \cup tx[r].orders
    /\ order_items' = order_items \cup tx[r].order_items
    /\ coupons' = {IF c.id \in tx[r].coupon_inc
                   THEN [c EXCEPT !.uses_count = c.uses_count + 1]
                   ELSE c : c \in coupons}
    /\ tx' = [tx EXCEPT ![r] = NoTx]
    /\ Finish(r, Response(201, "Order placed successfully", "", h[r].order_id))
    /\ UNCHANGED <<menu_items, next_coupon_id, next_order_id, now, canteen_resp, session>>

\* lines 460-470: a statement or the commit raises; conn.rollback()
DbError(r) ==
    /\ h[r].pc \in {"select_items", "select_coupon", "insert_order",
                    "insert_items", "increment", "commit"}
    /\ tx' = [tx EXCEPT ![r] = NoTx]
    /\ Finish(r, Response(500, "Failed to place order", "", 0))
    /\ UNCHANGED <<menu_items, coupons, next_coupon_id, orders, order_items,
                   next_order_id, now, canteen_resp, session>>

\* the response has been sent; the handler serves the next request
Return(r) ==
    /\ h[r].pc = "done"
    /\ h' = [h EXCEPT ![r] = Idle]
    /\ resp' = [resp EXCEPT ![r] = NoResp]
    /\ UNCHANGED <<menu_items, coupons, next_coupon_id, orders, order_items,
                   next_order_id, now, tx, canteen_resp, session>>

-----------------------------------------------------------------------------
(* The other requests and the clock *)

\* an update that also rewrites the price kept on the item's order lines
update_menu_itemRepricingLines(item_id, name, price, is_available) ==
    /\ name # "" \/ price # NULL \/ is_available # NULL
    /\ item_id \in DOMAIN menu_items
    /\ menu_items' = [menu_items EXCEPT ![item_id] =
           [@ EXCEPT !.name = IF name # "" THEN name ELSE @,
                     !.price = IF price # NULL THEN price[1] ELSE @,
                     !.is_available = IF is_available # NULL
                                      THEN is_available[1] ELSE @]]
    /\ menu_items' # menu_items
    /\ order_items' = {IF l.menu_item_id = item_id /\ price # NULL
                       THEN [l EXCEPT !.price_at_order = price[1]]
                       ELSE l : l \in order_items}
    /\ UNCHANGED <<coupons, next_coupon_id, orders, next_order_id,
                   now, h, tx, resp, canteen_resp, session>>

\* lines 198-267: UPDATE menu_items SET name = .., price = .., is_available = ..
\* WHERE id = ..   name: "" when the form has no name; price: NULL when the
\* form has no price; is_available: NULL when the form has no is_available,
\* else <<TRUE>> or <<FALSE>>
update_menu_item(item_id, name, price, is_available) ==
    /\ name # "" \/ price # NULL \/ is_available # NULL
    /\ item_id \in DOMAIN menu_items
    /\ menu_items' = [menu_items EXCEPT ![item_id] =
           [@ EXCEPT !.name = IF name # "" THEN name ELSE @,
                     !.price = IF price # NULL THEN price[1] ELSE @,
                     !.is_available = IF is_available # NULL
                                      THEN is_available[1] ELSE @]]
    /\ menu_items' # menu_items
    /\ UNCHANGED <<coupons, next_coupon_id, orders, order_items, next_order_id,
                   now, h, tx, resp, canteen_resp, session>>

\* lines 554-583: INSERT INTO coupons; code is unique, uses_count starts at 0
add_coupon(data) ==
    /\ data.code # NoCode
    /\ next_coupon_id <= MaxCoupons
    /\ \A c \in coupons : c.code # data.code
    /\ coupons' = coupons \cup
           {[id |-> next_coupon_id, code |-> data.code,
             discount_percentage |-> data.discount_percentage,
             discount_fixed |-> data.discount_fixed,
             valid_until |-> data.valid_until,
             max_uses |-> data.max_uses,
             uses_count |-> 0,
             is_active |-> data.is_active]}
    /\ next_coupon_id' = next_coupon_id + 1
    /\ UNCHANGED <<menu_items, orders, order_items, next_order_id, now, h, tx, resp,
                   canteen_resp, session>>

CanteenResponse(op, id, status, message) ==
    [op |-> op, id |-> id, status |-> status, message |-> message]

\* a deletion that takes the item's order lines with it
delete_menu_itemCascade(item_id) ==
    LET rows == {id \in DOMAIN menu_items : id = item_id}
    IN  /\ \A r \in Handlers : \A l \in tx[r].order_items : l.menu_item_id # item_id
        /\ menu_items' = [id \in DOMAIN menu_items \ rows |-> menu_items[id]]
        /\ order_items' = {l \in order_items : l.menu_item_id # item_id}
        /\ canteen_resp' = IF rows = {}
               THEN CanteenResponse("delete_menu_item", item_id, 404, "Menu item not found")
               ELSE CanteenResponse("delete_menu_item", item_id, 200,
                                    "Menu item deleted successfully")
        /\ UNCHANGED <<coupons, next_coupon_id, orders, next_order_id,
                       now, h, tx, resp, session>>

\* lines 270-305: DELETE FROM menu_items WHERE id = %s, committed at once.
\* order_items.menu_item_id references menu_items (lines 297-299): the DELETE
\* fails while an order line names the item, and waits while a transaction
\* holds an uncommitted line that names it.
delete_menu_item(item_id) ==
    LET rows == {id \in DOMAIN menu_items : id = item_id}
        referenced == \E l \in order_items : l.menu_item_id = item_id
    IN  /\ \/ /\ canteen_resp' = CanteenResponse("delete_menu_item", item_id, 500,
                                                  "Database connection failed")
              /\ UNCHANGED menu_items
           \/ /\ \A r \in Handlers : \A l \in tx[r].order_items : l.menu_item_id # item_id
              /\ IF referenced
                 THEN /\ canteen_resp' = CanteenResponse("delete_menu_item", item_id, 409,
                             "Cannot delete item, it is part of existing orders")
                      /\ UNCHANGED menu_items
                 ELSE /\ menu_items' = [id \in DOMAIN menu_items \ rows |-> menu_items[id]]
                      /\ canteen_resp' = IF rows = {}
                             THEN CanteenResponse("delete_menu_item", item_id, 404,
                                                  "Menu item not found")
                             ELSE CanteenResponse("delete_menu_item", item_id, 200,
                                                  "Menu item deleted successfully")
           \/ /\ canteen_resp' = CanteenResponse("delete_menu_item", item_id, 500,
                                                  "Failed to delete menu item")
              /\ UNCHANGED menu_items
        /\ UNCHANGED <<coupons, next_coupon_id, orders, order_items,
                       next_order_id, now, h, tx, resp, session>>

\* the schema of orders is not part of these sources: orders.coupon_code is
\* denormalized text with no foreign key to coupons
OrdersReferenceCoupons == FALSE

\* a deletion that also clears the code on the orders that carry it
delete_couponClearingOrders(coupon_id) ==
    LET rows == {c \in coupons : c.id = coupon_id}
    IN  /\ \A r \in Handlers : coupon_id \notin tx[r].coupon_inc
        /\ coupons' = coupons \ rows
        /\ orders' = {IF \E c \in rows : c.code = o.coupon_code
                      THEN [o EXCEPT !.coupon_code = NoCode] ELSE o : o \in orders}
        /\ canteen_resp' = IF rows = {}
               THEN CanteenResponse("delete_coupon", coupon_id, 404, "Coupon not found")
               ELSE CanteenResponse("delete_coupon", coupon_id, 200, "Coupon deleted")
        /\ UNCHANGED <<menu_items, next_coupon_id, order_items, next_order_id,
                       now, h, tx, resp, session>>

\* lines 607-624: DELETE FROM coupons WHERE id = %s, committed at once.  The
\* DELETE waits while a transaction holds an uncommitted UPDATE of the row.
delete_coupon(coupon_id) ==
    LET rows == {c \in coupons : c.id = coupon_id}
        referenced == /\ OrdersReferenceCoupons
                      /\ \E c \in rows, o \in orders : o.coupon_code = c.code
    IN  /\ \/ /\ canteen_resp' =
                    CanteenResponse("delete_coupon", coupon_id, 500, "DB connection error")
              /\ UNCHANGED coupons
           \/ /\ \A r \in Handlers : coupon_id \notin tx[r].coupon_inc
              /\ ~referenced
              /\ coupons' = coupons \ rows
              /\ canteen_resp' = IF rows = {}
                     THEN CanteenResponse("delete_coupon", coupon_id, 404, "Coupon not found")
                     ELSE CanteenResponse("delete_coupon", coupon_id, 200, "Coupon deleted")
           \/ /\ canteen_resp' =
                    CanteenResponse("delete_coupon", coupon_id, 500, "Failed to delete coupon")
              /\ UNCHANGED coupons
        /\ UNCHANGED <<menu_items, next_coupon_id, orders, order_items,
                       next_order_id, now, h, tx, resp, session>>

\* line 530
valid_statuses ==
    {"Pending", "Preparing", "Ready for Pickup", "Completed", "Cancelled"}

\* the body's status: "" when the key is missing
Statuses == valid_statuses \cup {"", "Shipped"}

\* line 543: the message names the new status
StatusUpdated(order_id, new_status) ==
    CanteenResponse("update_order_status", order_id, 200,
                    "Order status updated to " \o new_status)

\* the UPDATE without its WHERE clause
update_order_statusAllRows(order_id, new_status) ==
    LET changed == {o \in orders : o.status # new_status}
    IN  /\ new_status # "" /\ new_status \in valid_statuses
        /\ \A r \in Handlers : \A o \in tx[r].orders : o.id # order_id
        /\ orders' = {[o EXCEPT !.status = new_status] : o \in orders}
        /\ canteen_resp' = IF changed = {}
               THEN CanteenResponse("update_order_status", order_id, 404, "Order not found")
               ELSE StatusUpdated(order_id, new_status)
        /\ UNCHANGED <<menu_items, coupons, next_coupon_id, order_items,
                       next_order_id, now, h, tx, resp, session>>

\* the handler without the check of line 532
update_order_statusUnchecked(order_id, new_status) ==
    LET changed == {o \in orders : o.id = order_id /\ o.status # new_status}
    IN  /\ \A r \in Handlers : \A o \in tx[r].orders : o.id # order_id
        /\ orders' = (orders \ changed)
                          \cup {[o EXCEPT !.status = new_status] : o \in changed}
        /\ canteen_resp' = IF changed = {}
               THEN CanteenResponse("update_order_status", order_id, 404, "Order not found")
               ELSE StatusUpdated(order_id, new_status)
        /\ UNCHANGED <<menu_items, coupons, next_coupon_id, order_items,
                       next_order_id, now, h, tx, resp, session>>

\* lines 525-550: UPDATE orders SET status = %s WHERE id = %s, committed at
\* once.  cursor.rowcount counts the rows the UPDATE changed, so it is 0 both
\* when no order has the id and when the order already has the status.  The
\* UPDATE waits while the order's INSERT is uncommitted.
update_order_status(order_id, new_status) ==
    LET changed == {o \in orders : o.id = order_id /\ o.status # new_status}
    IN  /\ IF new_status = "" \/ new_status \notin valid_statuses
           THEN /\ canteen_resp' = CanteenResponse("update_order_status", order_id, 400,
                                                    "Invalid or missing status")
                /\ UNCHANGED orders
           ELSE \/ /\ canteen_resp' = CanteenResponse("update_order_status", order_id,
                                                       500, "Database connection failed")
                   /\ UNCHANGED orders
                \/ /\ \A r \in Handlers : \A o \in tx[r].orders : o.id # order_id
                   /\ orders' = (orders \ changed)
                                     \cup {[o EXCEPT !.status = new_status] : o \in changed}
                   /\ canteen_resp' = IF changed = {}
                          THEN CanteenResponse("update_order_status", order_id, 404,
                                               "Order not found")
                          ELSE StatusUpdated(order_id, new_status)
                \/ /\ canteen_resp' = CanteenResponse("update_order_status", order_id,
                                                       500, "Failed to update order status")
                   /\ UNCHANGED orders
        /\ UNCHANGED <<menu_items, coupons, next_coupon_id, order_items,
                       next_order_id, now, h, tx, resp, session>>

\* time passes
Tick ==
    /\ now < MaxClock
    /\ now' = now + 1
    /\ UNCHANGED <<menu_items, coupons, next_coupon_id, orders, order_items,
                   next_order_id, h, tx, resp, canteen_resp, session>>

CouponData(pcts, fixeds, untils, maxes, actives) ==
    [code : CouponCodes \ {NoCode}, discount_percentage : pcts,
     discount_fixed : fixeds, valid_until : untils, max_uses : maxes,
     is_active : actives]

-----------------------------------------------------------------------------
(* The student UI (src/frontend/app.py).  The cart is the dict of            *)
(* st.session_state, kept as the sequence of its entries in insertion       *)
(* order; the UI's requests are served by handler 1.                        *)

RECURSIVE CartQuantity(_)
CartQuantity(cart) ==
    IF cart = <<>> THEN 0 ELSE Head(cart).quantity + CartQuantity(Tail(cart))

CartIds(cart) == {cart[i].menu_item_id : i \in 1..Len(cart)}

\* lines 132-138: a login the backend accepts starts the session with an
\* empty cart
login_page ==
    /\ ~session.logged_in
    /\ session' = [logged_in |-> TRUE, has_cart |-> TRUE, cart |-> <<>>,
                   waiting |-> FALSE]
    /\ UNCHANGED <<menu_items, coupons, next_coupon_id, orders, order_items,
                   next_order_id, now, h, tx, resp, canteen_resp>>

\* lines 447-453: the Logout button pops user and cart
logout ==
    /\ session.logged_in /\ ~session.waiting
    /\ session' = NoSession
    /\ UNCHANGED <<menu_items, coupons, next_coupon_id, orders, order_items,
                   next_order_id, now, h, tx, resp, canteen_resp>>

\* lines 176-186 and 433-444: the Add to Cart button of an item the menu
\* shows (an available one)
add_to_cart(item_id) ==
    /\ session.logged_in /\ ~session.waiting
    /\ item_id \in DOMAIN menu_items /\ menu_items[item_id].is_available
    /\ CartQuantity(session.cart) < MaxQuantity
    /\ session' = [session EXCEPT
           !.has_cart = TRUE,
           !.cart = IF item_id \in CartIds(session.cart)
                    THEN [i \in 1..Len(session.cart) |->
                             IF session.cart[i].menu_item_id = item_id
                             THEN [session.cart[i] EXCEPT !.quantity = @ + 1]
                             ELSE session.cart[i]]
                    ELSE Append(session.cart,
                                [menu_item_id |-> item_id, quantity |-> 1])]
    /\ UNCHANGED <<menu_items, coupons, next_coupon_id, orders, order_items,
                   next_order_id, now, h, tx, resp, canteen_resp>>

\* lines 194-217: the Place Order button of a cart that is not empty sends
\* the cart's entries and the coupon code typed, if any
place_order_click(coupon_code) ==
    /\ session.logged_in /\ ~session.waiting
    /\ session.cart # <<>>
    /\ Accept(1, 7, session.cart, coupon_code)
    /\ session' = [session EXCEPT !.waiting = TRUE]

\* the answer handling that clears the cart whatever the answer
place_order_answerClearing ==
    /\ session.waiting
    /\ h[1].pc = "done"
    /\ session' = [session EXCEPT !.waiting = FALSE, !.cart = <<>>]
    /\ UNCHANGED <<menu_items, coupons, next_coupon_id, orders, order_items,
                   next_order_id, now, h, tx, resp, canteen_resp>>

\* lines 217-223: api_request returns the JSON body of a 2xx answer and None
\* for any other; the cart is cleared when the body has an order_id
place_order_answer ==
    /\ session.waiting
    /\ h[1].pc = "done"
    /\ session' = [session EXCEPT
           !.waiting = FALSE,
           !.cart = IF resp[1].status = 201 /\ resp[1].order_id # 0
                    THEN <<>> ELSE @]
    /\ UNCHANGED <<menu_items, coupons, next_coupon_id, orders, order_items,
                   next_order_id, now, h, tx, resp, canteen_resp>>

\* line 21 (timeout=10): the request times out before the backend answers;
\* api_request returns None and the backend goes on
place_order_timeout ==
    /\ session.waiting
    /\ h[1].pc \notin {"idle", "done"}
    /\ session' = [session EXCEPT !.waiting = FALSE]
    /\ UNCHANGED <<menu_items, coupons, next_coupon_id, orders, order_items,
                   next_order_id, now, h, tx, resp, canteen_resp>>

-----------------------------------------------------------------------------
(* Specifications *)

PlaceOrderSteps(r) ==
    \/ ResolveItems(r)
    \/ ApplyCoupon(r)
    \/ InsertOrder(r)
    \/ InsertOrderItems(r)
    \/ IncrementCoupon(r)
    \/ Commit(r)
    \/ DbError(r)
    \/ Return(r)

\* carts over item 1 and the unknown item 3
SmallCarts ==
    {items \in Carts : \A i \in 1..Len(items) : items[i].menu_item_id \in {1, 3}}

\* One request at a time, any cart of up to MaxLines lines over a catalog item
\* and an unknown item, a percentage coupon
Next ==
    \/ \E student_id \in StudentIds, items \in SmallCarts, coupon_code \in CouponCodes :
           Receive(1, student_id, items, coupon_code)
    \/ PlaceOrderSteps(1)
    \/ \E item_id \in DOMAIN menu_items, is_available \in BOOLEAN :
           update_menu_item(item_id, "", NULL, <<is_available>>)
    \/ \E data \in CouponData({<<10>>}, {NULL}, {NULL}, {NULL}, {TRUE}) :
           add_coupon(data)

Spec == Init /\ [][Next]_vars

\* the carts the student UI submits for the catalog items (one line per
\* item, src/frontend/app.py lines 200-204), with a positive quantity
PricedCarts ==
    {items \in Carts :
        /\ Len(items) > 0
        /\ \A i \in 1..Len(items) :
               items[i].menu_item_id \in {1, 2} /\ items[i].quantity > 0
        /\ \A i, j \in 1..Len(items) :
               i < j => items[i].menu_item_id < items[j].menu_item_id}

\* One request at a time, carts that pass validation, any coupon row, the clock
NextPricing ==
    \/ \E items \in PricedCarts, coupon_code \in CouponCodes :
           Receive(1, 7, items, coupon_code)
    \/ PlaceOrderSteps(1)
    \/ \E data \in CouponData({NULL, <<0>>, <<10>>, <<150>>}, {NULL, <<Cents(5000)>>},
                              {NULL, <<1>>}, {NULL, <<1>>}, BOOLEAN) :
           add_coupon(data)
    \/ Tick

SpecPricing == Init /\ [][NextPricing]_vars

\* Two requests at a time for one item, a coupon that may be used once,
\* and the catalog price edited meanwhile
NextConcurrent ==
    \/ \E r \in Handlers, coupon_code \in CouponCodes :
           Receive(r, 7, <<[menu_item_id |-> 1, quantity |-> 2]>>, coupon_code)
    \/ \E r \in Handlers : PlaceOrderSteps(r)
    \/ \E price \in Prices : update_menu_item(1, "", <<price>>, NULL)
    \/ \E data \in CouponData({<<10>>}, {NULL}, {NULL}, {<<1>>}, {TRUE}) :
           add_coupon(data)

SpecConcurrent == Init /\ [][NextConcurrent]_vars

\* Two requests at a time for one item, with coupons of one use or of any
\* number of uses added and deleted meanwhile
NextCoupons ==
    \/ \E r \in Handlers, coupon_code \in CouponCodes :
           Receive(r, 7, <<[menu_item_id |-> 1, quantity |-> 2]>>, coupon_code)
    \/ \E r \in Handlers : PlaceOrderSteps(r)
    \/ \E data \in CouponData({<<10>>}, {NULL}, {NULL}, {NULL, <<1>>}, {TRUE}) :
           add_coupon(data)
    \/ \E coupon_id \in 1..MaxCoupons : delete_coupon(coupon_id)

SpecCoupons == Init /\ [][NextCoupons]_vars

\* One request at a time, carts of the catalog items, and the catalog's
\* names, prices and availability edited meanwhile
NextSnapshot ==
    \/ \E items \in PricedCarts, coupon_code \in CouponCodes :
           Receive(1, 7, items, coupon_code)
    \/ PlaceOrderSteps(1)
    \/ \E name \in {"", "Samosa", "Kachori"},
          price \in {NULL} \cup {<<p>> : p \in Prices},
          is_available \in {NULL, <<TRUE>>, <<FALSE>>} :
           update_menu_item(1, name, price, is_available)
    \/ \E data \in CouponData({<<10>>}, {NULL}, {NULL}, {NULL}, {TRUE}) :
           add_coupon(data)

SpecSnapshot == Init /\ [][NextSnapshot]_vars

\* One request at a time, an empty cart or a cart of the catalog items, and
\* menu items deleted meanwhile
NextDeletes ==
    \/ \E items \in PricedCarts \cup {<<>>}, coupon_code \in CouponCodes :
           Receive(1, 7, items, coupon_code)
    \/ PlaceOrderSteps(1)
    \/ \E item_id \in DOMAIN menu_items : delete_menu_item(item_id)
    \/ \E data \in CouponData({<<10>>}, {NULL}, {NULL}, {NULL}, {TRUE}) :
           add_coupon(data)

SpecDeletes == Init /\ [][NextDeletes]_vars

\* One request at a time for one item, with or without the coupon, and the
\* canteen setting the status of the orders meanwhile
NextStatus ==
    \/ \E coupon_code \in CouponCodes :
           Receive(1, 7, <<[menu_item_id |-> 1, quantity |-> 2]>>, coupon_code)
    \/ PlaceOrderSteps(1)
    \/ \E data \in CouponData({<<10>>}, {NULL}, {NULL}, {NULL}, {TRUE}) :
           add_coupon(data)
    \/ \E order_id \in 1..MaxOrders, new_status \in Statuses :
           update_order_status(order_id, new_status)

SpecStatus == Init /\ [][NextStatus]_vars

\* One request at a time for one item, with or without the coupon, and every
\* other writer meanwhile: the order's status set, the item edited, the
\* coupon deleted
NextWriters ==
    \/ \E coupon_code \in CouponCodes :
           Receive(1, 7, <<[menu_item_id |-> 1, quantity |-> 2]>>, coupon_code)
    \/ PlaceOrderSteps(1)
    \/ \E data \in CouponData({<<10>>}, {NULL}, {NULL}, {NULL}, {TRUE}) :
           add_coupon(data)
    \/ \E order_id \in 1..MaxOrders, new_status \in {"Preparing"} :
           update_order_status(order_id, new_status)
    \/ \E price \in Prices : update_menu_item(1, "", <<price>>, NULL)
    \/ delete_coupon(1)

SpecWriters == Init /\ [][NextWriters]_vars

\* One request at a time for one item, with the code of a coupon that may be
\* inactive, expiring, of one use or without a discount, and may be deleted
NextCodes ==
    \/ \E coupon_code \in CouponCodes :
           Receive(1, 7, <<[menu_item_id |-> 1, quantity |-> 2]>>, coupon_code)
    \/ PlaceOrderSteps(1)
    \/ \E data \in CouponData({NULL, <<0>>, <<10>>}, {NULL}, {NULL, <<1>>},
                              {NULL, <<1>>}, BOOLEAN) :
           add_coupon(data)
    \/ delete_coupon(1)
    \/ Tick

SpecCodes == Init /\ [][NextCodes]_vars

\* The student UI's session: login, logout, the cart filled and ordered with
\* or without a coupon code (of no coupon in the store), item 1 taken off and
\* put back on the menu meanwhile
NextCart ==
    \/ login_page
    \/ logout
    \/ \E item_id \in DOMAIN menu_items : add_to_cart(item_id)
    \/ \E coupon_code \in CouponCodes : place_order_click(coupon_code)
    \/ ResolveItems(1)
    \/ ApplyCoupon(1)
    \/ InsertOrder(1)
    \/ InsertOrderItems(1)
    \/ Commit(1)
    \/ DbError(1)
    \/ place_order_answer
    \/ place_order_timeout
    \/ ~session.waiting /\ Return(1)
    \/ \E is_available \in BOOLEAN : update_menu_item(1, "", NULL, <<is_available>>)

SpecCart == Init /\ [][NextCart]_vars

-----------------------------------------------------------------------------
(* Claims *)

\* the committed order row a handler's 201 response names
PlacedOrder(r) == {o \in orders : o.id = resp[r].order_id}

Placed(r) == h[r].pc = "done" /\ resp[r].status = 201

\* C1: every persisted order has final_amount = total_amount - discount_amount
\* and discount_amount <= total_amount, so final_amount is never negative,
\* whatever the cart and whatever coupon row the store holds.
C1_AmountsConsistent ==
    \A o \in orders :
        /\ o.final_amount = o.total_amount - o.discount_amount
        /\ o.discount_amount <= o.total_amount
        /\ o.final_amount >= 0

\* C2: a coupon with max_uses = N is carried by at most N committed orders and
\* its uses_count never exceeds N, under any interleaving of place_order calls.
C2_UsageCeiling ==
    \A c \in coupons :
        c.max_uses # NULL =>
            /\ c.uses_count <= c.max_uses[1]
            /\ Cardinality({o \in orders : o.coupon_code = c.code}) <= c.max_uses[1]

OrderLinesOf(order_id) == {l \in order_items : l.order_id = order_id}

\* C3: place_order's writes are atomic.  In every committed state a header has
\* its lines and a line has its header; the writes of a call that has not yet
\* committed are visible to no one; a call that answered 201 left its header,
\* all its lines and its coupon increment; a call that failed after its first
\* INSERT left no header, no line and no uses_count change (each coupon's
\* uses_count stays the number of committed orders that carry its code).
C3_AtomicWrites ==
    /\ \A o \in orders : OrderLinesOf(o.id) # {}
    /\ \A l \in order_items : \E o \in orders : o.id = l.order_id
    /\ \A r \in Handlers :
          h[r].order_id # 0 =>
              IF Placed(r)
              THEN /\ \E o \in orders : o.id = h[r].order_id
                   /\ Cardinality(OrderLinesOf(h[r].order_id))
                          = Len(h[r].order_items_data)
              ELSE /\ \A o \in orders : o.id # h[r].order_id
                   /\ OrderLinesOf(h[r].order_id) = {}
    /\ \A c \in coupons :
          c.uses_count = Cardinality({o \in orders : o.coupon_code = c.code})

\* a call that had inserted its header and was to use the coupon failed, next
\* to a committed order
C3_Witness ==
    \E r \in Handlers :
        /\ h[r].pc = "done"
        /\ resp[r].status = 500
        /\ h[r].order_id # 0
        /\ UsesCoupon(r)
        /\ orders # {}

\* what a reader of the catalog sees in one submitted line
Unknown(line) == line.menu_item_id \notin DOMAIN menu_items

Unavailable(line) ==
    ~Unknown(line) /\ ~menu_items[line.menu_item_id].is_available

NonPositive(line) == line.quantity <= 0

Offending(line) == Unknown(line) \/ Unavailable(line) \/ NonPositive(line)

First(S) == CHOOSE k \in S : \A j \in S : k <= j

\* handler r takes the step that answers its catalog lookup (lines 376-401)
Validates(r) == h[r].pc = "select_items" /\ h'[r] # h[r]

\* that step rejected the request and wrote nothing
RejectsCleanly(r) ==
    /\ h'[r].pc = "done"
    /\ resp'[r].status \in {400, 404, 500}
    /\ h'[r].order_id = 0
    /\ tx' = tx /\ tx[r] = NoTx
    /\ orders' = orders /\ order_items' = order_items /\ coupons' = coupons
    /\ next_order_id' = next_order_id

NotFound(line) == Response(404, "Menu item not found", ToString(line.menu_item_id), 0)

ItemUnavailable(line) ==
    Response(400, "Item is currently unavailable", menu_items[line.menu_item_id].name, 0)

InvalidQuantity(line) ==
    Response(400, "Invalid quantity for item", ToString(line.menu_item_id), 0)

\* C4 as stated: a call whose cart holds an id absent from the catalog is
\* rejected with item-not-found naming that id, and writes nothing (whenever
\* the body passed the first check and the lookup itself did not fail).
C4_AsStated ==
    [][\A r \in Handlers :
          LET items == h[r].items
              unknown == {i \in 1..Len(items) : Unknown(items[i])}
          IN  (Validates(r) /\ unknown # {} /\ resp'[r].status # 500) =>
                  /\ RejectsCleanly(r)
                  /\ \E i \in unknown : resp'[r] = NotFound(items[i])]_vars

\* C4 amended: such a call is always rejected and writes nothing; the error is
\* item-not-found naming the cart's first unknown id when every line before it
\* names an available item with a positive quantity.
C4_UnknownItemRejected ==
    [][\A r \in Handlers :
          LET items == h[r].items
              unknown == {i \in 1..Len(items) : Unknown(items[i])}
          IN  (Validates(r) /\ unknown # {}) =>
                  /\ RejectsCleanly(r)
                  /\ (/\ resp'[r].status # 500
                      /\ \A j \in 1..(First(unknown) - 1) : ~Offending(items[j]))
                         => resp'[r] = NotFound(items[First(unknown)])]_vars

\* the unknown id on the second line of a cart was named, with a used coupon
\* in the store and the coupon code sent
C4_Witness ==
    \E r \in Handlers :
        /\ h[r].pc = "done"
        /\ Len(h[r].items) = 2
        /\ Unknown(h[r].items[2])
        /\ resp[r] = NotFound(h[r].items[2])
        /\ h[r].supplied_code # NoCode
        /\ \E c \in coupons : c.code = h[r].supplied_code /\ c.uses_count > 0

\* C5: a call with a line of quantity 0 or below is rejected: its handler
\* never gets past the validation loop, allocates no order id and writes
\* nothing, and no committed order line has a quantity below 1.
C5_NonPositiveRejected ==
    /\ \A r \in Handlers :
          (h[r].pc # "idle" /\ \E i \in 1..Len(h[r].items) : h[r].items[i].quantity <= 0)
              => /\ h[r].pc \in {"select_items", "done"}
                 /\ h[r].pc = "done" => resp[r].status \in {400, 404, 500}
                 /\ h[r].order_id = 0
                 /\ tx[r] = NoTx
                 /\ \A o \in orders : o.id # resp[r].order_id
    /\ \A l \in order_items : l.quantity >= 1

\* a cart with a quantity of 0 and a negative one was rejected for its
\* quantity, with the coupon code sent and the coupon in the store
C5_Witness ==
    \E r \in Handlers :
        /\ h[r].pc = "done"
        /\ resp[r].message = "Invalid quantity for item"
        /\ \E i, j \in 1..Len(h[r].items) :
               h[r].items[i].quantity = 0 /\ h[r].items[j].quantity < 0
        /\ h[r].supplied_code # NoCode
        /\ \E c \in coupons : c.code = h[r].supplied_code

\* C6 as stated: a call whose cart holds an item the catalog has with
\* is_available = false is rejected with item-unavailable naming the item,
\* and writes nothing (whenever the lookup itself did not fail).
C6_AsStated ==
    [][\A r \in Handlers :
          LET items == h[r].items
              unavailable == {i \in 1..Len(items) : Unavailable(items[i])}
          IN  (Validates(r) /\ unavailable # {} /\ resp'[r].status # 500) =>
                  /\ RejectsCleanly(r)
                  /\ \E i \in unavailable : resp'[r] = ItemUnavailable(items[i])]_vars

\* C6 amended: such a call is always rejected and writes nothing; the error is
\* item-unavailable naming the cart's first unavailable item when every line
\* before it names an available item with a positive quantity.
C6_UnavailableItemRejected ==
    [][\A r \in Handlers :
          LET items == h[r].items
              unavailable == {i \in 1..Len(items) : Unavailable(items[i])}
          IN  (Validates(r) /\ unavailable # {}) =>
                  /\ RejectsCleanly(r)
                  /\ (/\ resp'[r].status # 500
                      /\ \A j \in 1..(First(unavailable) - 1) : ~Offending(items[j]))
                         => resp'[r] = ItemUnavailable(items[First(unavailable)])]_vars

\* the unavailable item on the second line of a cart was named
C6_Witness ==
    \E r \in Handlers :
        /\ h[r].pc = "done"
        /\ Len(h[r].items) = 2
        /\ Unavailable(h[r].items[2])
        /\ resp[r] = ItemUnavailable(h[r].items[2])

\* C7: a call with no requester id or no lines is answered as an invalid
\* request at once: its handler never reaches the catalog lookup, the coupon
\* lookup or a write.
C7_MissingInputRejected ==
    \A r \in Handlers :
        (h[r].pc # "idle" /\ (h[r].student_id = NoStudent \/ h[r].items = <<>>))
            => /\ h[r].pc = "done"
               /\ resp[r] = Response(400, "Missing student ID or items", "", 0)
               /\ h[r].order_items_data = <<>>
               /\ h[r].coupon = NoCoupon
               /\ h[r].order_id = 0
               /\ tx[r] = NoTx

\* a call with lines but no requester id, and one with a requester id but no
\* lines, are the cases; the witness is the second, with the coupon code sent
C7_Witness ==
    \E r \in Handlers :
        /\ h[r].pc = "done"
        /\ h[r].student_id # NoStudent
        /\ h[r].items = <<>>
        /\ h[r].supplied_code # NoCode
        /\ resp[r].status = 400

\* C8 as stated: quantities are checked before items are resolved, so a cart
\* with a non-positive quantity and an unknown or unavailable item is rejected
\* as an invalid quantity naming the offending line.
C8_AsStated ==
    [][\A r \in Handlers :
          LET items == h[r].items
              nonpositive == {i \in 1..Len(items) : NonPositive(items[i])}
          IN  (/\ Validates(r) /\ resp'[r].status # 500
               /\ nonpositive # {}
               /\ \E i \in 1..Len(items) : Unknown(items[i]) \/ Unavailable(items[i]))
              => \E i \in nonpositive : resp'[r] = InvalidQuantity(items[i])]_vars

\* C8 amended: validation is fail-fast line by line in cart order, and within
\* a line it checks that the item exists, then that it is available, then
\* that the quantity is positive: the call is rejected for its first offending
\* line, as item-not-found if that line's item is unknown, else as
\* item-unavailable if it is unavailable, else as an invalid quantity; a cart
\* with no offending line passes validation.
C8_FirstOffendingLine ==
    [][\A r \in Handlers :
          LET items == h[r].items
              offending == {i \in 1..Len(items) : Offending(items[i])}
              line == items[First(offending)]
          IN  (Validates(r) /\ resp'[r].status # 500) =>
                  IF offending = {}
                  THEN h'[r].pc \in {"select_coupon", "insert_order"}
                  ELSE /\ h'[r].pc = "done"
                       /\ resp'[r] = IF Unknown(line) THEN NotFound(line)
                                     ELSE IF Unavailable(line) THEN ItemUnavailable(line)
                                     ELSE InvalidQuantity(line)]_vars

\* a line with an unknown item and a non-positive quantity was rejected as
\* item-not-found
C8_Witness ==
    \E r \in Handlers :
        /\ h[r].pc = "done"
        /\ \E i \in 1..Len(h[r].items) :
               /\ Unknown(h[r].items[i]) /\ NonPositive(h[r].items[i])
               /\ resp[r] = NotFound(h[r].items[i])

\* C9: when a valid coupon with discount_percentage set (not NULL) is used,
\* the order's discount is total_amount * discount_percentage / 100.
C9_PercentageDiscount ==
    \A r \in Handlers :
        (Placed(r) /\ h[r].valid /\ h[r].coupon.discount_percentage # NULL) =>
            \A o \in PlacedOrder(r) :
                o.discount_amount * 100
                    = o.total_amount * h[r].coupon.discount_percentage[1]

\* C10: when a valid coupon with discount_fixed set (not NULL) is used, the
\* order's discount is min(total_amount, discount_fixed).
C10_FixedDiscount ==
    \A r \in Handlers :
        (Placed(r) /\ h[r].valid /\ h[r].coupon.discount_fixed # NULL) =>
            \A o \in PlacedOrder(r) :
                o.discount_amount = Min(o.total_amount, h[r].coupon.discount_fixed[1])

\* handler r takes the step that answers its coupon lookup (lines 407-434)
ChecksCoupon(r) == h[r].pc = "select_coupon" /\ h'[r] # h[r] /\ resp'[r].status # 500

\* handler r's commit goes through (lines 457-458)
Commits(r) == h[r].pc = "commit" /\ resp'[r].status = 201

\* the order row that handler r's commit adds to the table
Committed(r) == {o \in orders' \ orders : o.id = h[r].order_id}

\* no row of the store with this code is active and unexpired
Inapplicable(code) ==
    \A c \in coupons :
        c.code = code =>
            ~c.is_active \/ (c.valid_until # NULL /\ c.valid_until[1] <= now)

\* C11: a call with a valid cart and a coupon code that is unknown, inactive
\* or expired (valid_until not later than now) is not answered with an error
\* by the coupon check: it goes on to its INSERT with discount 0 and
\* final = subtotal, and its commit stores the order with those amounts.
C11_InvalidCouponIgnored ==
    [][\A r \in Handlers :
          /\ (ChecksCoupon(r) /\ Inapplicable(h[r].supplied_code)) =>
                 /\ h'[r].pc = "insert_order"
                 /\ resp'[r] = NoResp
                 /\ ~h'[r].valid
                 /\ h'[r].discount_amount = 0
                 /\ h'[r].final_amount = h[r].total_amount
          /\ (Commits(r) /\ h[r].supplied_code # NoCode /\ ~h[r].valid) =>
                 /\ Committed(r) # {}
                 /\ \A o \in Committed(r) :
                        /\ o.discount_amount = 0
                        /\ o.final_amount = o.total_amount
                        /\ o.total_amount = h[r].total_amount]_vars

\* an order was placed with the code of an active coupon with a non-zero
\* percentage that expires exactly now, and got no discount
C11_Witness ==
    \E r \in Handlers :
        /\ Placed(r)
        /\ \E c \in coupons :
               /\ c.code = h[r].supplied_code
               /\ c.is_active
               /\ c.valid_until = <<now>>
               /\ c.max_uses = NULL
               /\ c.discount_percentage = <<10>>
        /\ \E o \in PlacedOrder(r) : o.discount_amount = 0 /\ o.total_amount > 0

\* every row of the store with this code has been used max_uses times
Exhausted(code) ==
    /\ \E c \in coupons : c.code = code
    /\ \A c \in coupons :
           c.code = code => c.max_uses # NULL /\ c.uses_count = c.max_uses[1]

\* C12: a coupon whose uses_count equals its max_uses when the call checks it
\* is not applied: the call goes on with discount 0 and no coupon code, its
\* commit stores the order with discount 0 and changes no coupon row.
C12_ExhaustedCouponNotApplied ==
    [][\A r \in Handlers :
          /\ (ChecksCoupon(r) /\ Exhausted(h[r].supplied_code)) =>
                 /\ h'[r].pc = "insert_order"
                 /\ ~h'[r].valid
                 /\ h'[r].coupon_code = NoCode
                 /\ h'[r].discount_amount = 0
                 /\ h'[r].final_amount = h[r].total_amount
          /\ (Commits(r) /\ h[r].supplied_code # NoCode /\ ~h[r].valid) =>
                 /\ coupons' = coupons
                 /\ Committed(r) # {}
                 /\ \A o \in Committed(r) :
                        o.discount_amount = 0 /\ o.coupon_code = NoCode]_vars

\* after an order that used the coupon's only use, a second order sent the
\* code, was placed without a discount and left uses_count at max_uses
C12_Witness ==
    \E r \in Handlers :
        /\ Placed(r)
        /\ \E c \in coupons :
               /\ c.code = h[r].supplied_code
               /\ c.max_uses = <<1>> /\ c.uses_count = 1
        /\ \E o \in PlacedOrder(r) : o.discount_amount = 0 /\ o.coupon_code = NoCode
        /\ \E o \in orders : o.discount_amount > 0

\* C13: the commit of a call that applied a valid coupon adds one to the
\* uses_count of that coupon's row (if the row is still in the store) and
\* changes nothing else of the coupons, in the step that publishes the order
\* header and its lines; the commit of a call that applied no coupon, and
\* every other step of a call, a failing one included, changes no coupon row.
C13_UsesCountedOnce ==
    [][\A r \in Handlers :
          /\ (Commits(r) /\ h[r].valid) =>
                 /\ coupons' = {IF c.id = h[r].coupon.id
                                THEN [c EXCEPT !.uses_count = c.uses_count + 1]
                                ELSE c : c \in coupons}
                 /\ \E o \in Committed(r) : o.coupon_code = h[r].supplied_code
                 /\ \E l \in order_items' \ order_items : l.order_id = h[r].order_id
          /\ (Commits(r) /\ ~h[r].valid) => coupons' = coupons
          /\ (h'[r] # h[r] /\ ~Commits(r)) => coupons' = coupons]_vars

\* two calls in flight at once both applied the coupon and both were counted
C13_Witness ==
    /\ \A r \in Handlers : Placed(r) /\ h[r].valid
    /\ \E c \in coupons : c.code = "SAVE" /\ c.uses_count = 2
    /\ Cardinality({o \in orders : o.coupon_code = "SAVE"}) = 2

RECURSIVE SumLines(_)
SumLines(lines) ==
    IF lines = {} THEN 0
    ELSE LET l == CHOOSE x \in lines : TRUE
         IN  l.price_at_order * l.quantity + SumLines(lines \ {l})

\* C15: the step that reads the catalog keeps, for each submitted line, the
\* unit price the catalog has at that step; the commit stores one order line
\* per submitted line with that price, whatever the catalog's price is by
\* then; and every committed order's total_amount is the sum over its lines
\* of price_at_order * quantity.
C15_PriceSnapshot ==
    [][\A r \in Handlers :
          LET items == h[r].items
          IN  /\ (Validates(r) /\ h'[r].pc # "done") =>
                     /\ Len(h'[r].order_items_data) = Len(items)
                     /\ \A i \in 1..Len(items) :
                            h'[r].order_items_data[i] =
                                [menu_item_id |-> items[i].menu_item_id,
                                 quantity |-> items[i].quantity,
                                 price_at_order |-> menu_items[items[i].menu_item_id].price]
              /\ Commits(r) =>
                     /\ order_items' \ order_items =
                            {[order_id |-> h[r].order_id,
                              line |-> i,
                              menu_item_id |-> items[i].menu_item_id,
                              quantity |-> items[i].quantity,
                              price_at_order |-> h[r].order_items_data[i].price_at_order]
                             : i \in 1..Len(items)}
                     /\ Cardinality(order_items' \ order_items) = Len(items)
              /\ \A o \in orders' :
                     o.total_amount = SumLines({l \in order_items' : l.order_id = o.id})]_vars

\* an order of two lines was committed after the price of one of its items
\* was edited: its line keeps the price read, not the catalog's price
C15_Witness ==
    \E r \in Handlers :
        /\ Placed(r)
        /\ Len(h[r].items) = 2
        /\ Cardinality(OrderLinesOf(resp[r].order_id)) = 2
        /\ \E l \in OrderLinesOf(resp[r].order_id) :
               l.price_at_order # menu_items[l.menu_item_id].price

\* C16: a step that changes a menu item (its name, price or availability)
\* leaves every committed order line, its price_at_order included, and every
\* committed order with its three amounts as they were.
C16_CatalogEditsKeepOrders ==
    [][menu_items' # menu_items =>
          /\ \A l \in order_items :
                 \E m \in order_items' :
                     /\ m.order_id = l.order_id /\ m.line = l.line
                     /\ m.price_at_order = l.price_at_order
                     /\ m.quantity = l.quantity
          /\ \A o \in orders :
                 \E p \in orders' :
                     /\ p.id = o.id
                     /\ p.total_amount = o.total_amount
                     /\ p.discount_amount = o.discount_amount
                     /\ p.final_amount = o.final_amount
          /\ Cardinality(order_items') = Cardinality(order_items)
          /\ Cardinality(orders') = Cardinality(orders)]_vars

\* after a discounted order of item 1, the item's name, price and availability
\* have all been changed and the order line still holds the price it was sold at
C16_Witness ==
    /\ menu_items[1].name # "Samosa"
    /\ menu_items[1].price # Cents(1500)
    /\ ~menu_items[1].is_available
    /\ \E l \in order_items :
           /\ l.menu_item_id = 1 /\ l.price_at_order = Cents(1500)
           /\ \E o \in orders : o.id = l.order_id /\ o.discount_amount > 0

\* C17: in every reachable state, every row of orders has at least one row of
\* order_items.
C17_OrderHasLines ==
    \A o \in orders : \E l \in order_items : l.order_id = o.id

\* the canteen asked to delete an item that a committed order of two lines
\* names, and was refused
C17_Witness ==
    /\ canteen_resp.op = "delete_menu_item" /\ canteen_resp.status = 409
    /\ \E o \in orders :
           /\ Cardinality(OrderLinesOf(o.id)) = 2
           /\ \E l \in OrderLinesOf(o.id) : l.menu_item_id = canteen_resp.id

\* a step that answers a coupon deletion request for this id
DeletesCoupon(coupon_id) ==
    /\ canteen_resp'.op = "delete_coupon" /\ canteen_resp'.id = coupon_id
    /\ \/ canteen_resp' # canteen_resp
       \/ \E c \in coupons : c.id = coupon_id /\ \A d \in coupons' : d.id # c.id

\* the deletion request for this id can be answered with success
DeleteSucceeds(coupon_id) == delete_coupon(coupon_id) /\ canteen_resp'.status = 200

\* C18: whatever number of orders carry a coupon's code, a request to delete
\* the coupon can succeed as soon as no uncommitted order holds its row; a
\* deletion answered with success has removed the row; and a deletion step
\* leaves every order and order line as it was, the coupon_code text and
\* the discount_amount of the orders placed with the coupon included.
C18_DeleteCouponKeepsOrders ==
    /\ [](\A c \in coupons :
             (\A r \in Handlers : c.id \notin tx[r].coupon_inc)
                 => ENABLED DeleteSucceeds(c.id))
    /\ [][\A coupon_id \in 1..MaxCoupons :
             DeletesCoupon(coupon_id) =>
                 /\ orders' = orders
                 /\ order_items' = order_items
                 /\ canteen_resp'.status = 200 =>
                        /\ \E c \in coupons : c.id = coupon_id
                        /\ coupons' = {c \in coupons : c.id # coupon_id}
                 /\ canteen_resp'.status # 200 => coupons' = coupons]_vars

\* a coupon that two orders were placed with has been deleted, and the two
\* orders still carry its code and their discounts
C18_Witness ==
    /\ canteen_resp = CanteenResponse("delete_coupon", 1, 200, "Coupon deleted")
    /\ \A c \in coupons : c.code # "SAVE"
    /\ Cardinality({o \in orders : o.coupon_code = "SAVE" /\ o.discount_amount > 0}) = 2

\* C19: in every reachable state of the coupon store, no coupon row has both
\* discount_percentage and discount_fixed set.
C19_DiscountExclusive ==
    \A c \in coupons : c.discount_percentage = NULL \/ c.discount_fixed = NULL

\* C20: an order placed with a valid coupon row that has both
\* discount_percentage and discount_fixed set gets one discount, the
\* percentage amount or the capped fixed amount, and never their sum.
C20_OneDiscount ==
    \A r \in Handlers :
        (/\ Placed(r) /\ h[r].valid
         /\ h[r].coupon.discount_percentage # NULL
         /\ h[r].coupon.discount_fixed # NULL) =>
            \A o \in PlacedOrder(r) :
                LET pct == h[r].coupon.discount_percentage[1]
                    fixed == h[r].coupon.discount_fixed[1]
                    capped == Min(o.total_amount, fixed)
                IN  /\ \/ o.discount_amount * 100 = o.total_amount * pct
                       \/ o.discount_amount = capped
                    /\ (pct > 0 /\ fixed > 0) =>
                           o.discount_amount * 100 # o.total_amount * pct + capped * 100
                    /\ o.final_amount = o.total_amount - o.discount_amount

\* an order was placed with a coupon of 10 percent and 50.00 fixed: it got the
\* 10 percent, which is neither the capped fixed amount nor the sum
C20_Witness ==
    \E r \in Handlers :
        /\ Placed(r) /\ h[r].valid
        /\ h[r].coupon.discount_percentage = <<10>>
        /\ h[r].coupon.discount_fixed = <<Cents(5000)>>
        /\ \E o \in PlacedOrder(r) :
               /\ o.discount_amount * 10 = o.total_amount
               /\ o.discount_amount # Min(o.total_amount, Cents(5000))

\* the row the call fetched has neither discount column set
NoDiscountSet(coupon) ==
    coupon.discount_percentage = NULL /\ coupon.discount_fixed = NULL

\* C21: when the coupon a call found valid has neither discount_percentage
\* nor discount_fixed set, the coupon check is not answered with an error and
\* leaves discount 0 and final = subtotal, and the commit stores the order
\* with those amounts.
C21_NoDiscountSet ==
    [][\A r \in Handlers :
          /\ (ChecksCoupon(r) /\ h'[r].valid /\ NoDiscountSet(h'[r].coupon)) =>
                 /\ h'[r].pc = "insert_order"
                 /\ resp'[r] = NoResp
                 /\ h'[r].discount_amount = 0
                 /\ h'[r].final_amount = h[r].total_amount
          /\ (Commits(r) /\ h[r].valid /\ NoDiscountSet(h[r].coupon)) =>
                 /\ Committed(r) # {}
                 /\ \A o \in Committed(r) :
                        /\ o.discount_amount = 0
                        /\ o.final_amount = o.total_amount
                        /\ o.total_amount = h[r].total_amount
                        /\ o.total_amount > 0]_vars

\* an order was placed with an active, unexpired, unexhausted coupon that has
\* neither discount column set
C21_Witness ==
    \E r \in Handlers :
        /\ Placed(r) /\ h[r].valid
        /\ NoDiscountSet(h[r].coupon)
        /\ h[r].coupon.code = h[r].supplied_code
        /\ \E o \in PlacedOrder(r) : o.discount_amount = 0 /\ o.final_amount > 0

\* the fields of an order row that are written once
Frozen(o) ==
    [id |-> o.id, student_id |-> o.student_id, total_amount |-> o.total_amount,
     coupon_code |-> o.coupon_code, discount_amount |-> o.discount_amount,
     final_amount |-> o.final_amount]

\* C22: an order row is created with status "Pending"; no step changes the
\* requester, the amounts or the coupon_code of an existing order, or adds,
\* removes or changes one of its lines; and a step that changes an order's
\* status is the answer to a status update addressed to that order, and
\* leaves every other order as it was.
C22_OrderImmutableButStatus ==
    [][/\ \A p \in orders' :
              (\A o \in orders : o.id # p.id) => p.status = "Pending"
       /\ \A o \in orders :
              /\ \E p \in orders' : Frozen(p) = Frozen(o)
              /\ Cardinality({p \in orders' : p.id = o.id}) = 1
              /\ {l \in order_items' : l.order_id = o.id}
                     = {l \in order_items : l.order_id = o.id}
              /\ o \notin orders' =>
                     /\ canteen_resp'.op = "update_order_status"
                     /\ canteen_resp'.id = o.id
                     /\ canteen_resp'.status = 200
                     /\ \A q \in orders : q.id # o.id => q \in orders'
                     /\ order_items' = order_items]_vars

\* of two orders placed with the coupon, one has been set to Preparing and the
\* other is still Pending, after the coupon was deleted and the item repriced
C22_Witness ==
    /\ \A c \in coupons : c.code # "SAVE"
    /\ menu_items[1].price # Cents(1500)
    /\ \E o, p \in orders :
           /\ o.status = "Preparing" /\ p.status = "Pending"
           /\ o.coupon_code = "SAVE" /\ o.discount_amount > 0
           /\ \E l \in OrderLinesOf(o.id) : l.price_at_order = Cents(1500)

\* a row of the store with this code is active, unexpired and unexhausted
Usable(code) ==
    \E c \in coupons :
        /\ c.code = code /\ c.is_active
        /\ (c.valid_until = NULL \/ c.valid_until[1] > now)
        /\ (c.max_uses = NULL \/ c.uses_count < c.max_uses[1])

\* C23: the coupon check keeps the supplied code exactly when a row with that
\* code is active, unexpired and unexhausted at that step, and otherwise
\* clears it and leaves discount 0; the commit stores the code the check
\* kept; an order stored without a code has discount_amount 0 and its commit
\* changes no coupon; the commit of an order stored with a code, whatever its
\* discount, adds one use to the coupon's row (if the row is still in the
\* store) and changes no other coupon.
C23_CodeKeptIffValid ==
    [][\A r \in Handlers :
          /\ ChecksCoupon(r) =>
                 /\ h'[r].coupon_code =
                        IF Usable(h[r].supplied_code) THEN h[r].supplied_code ELSE NoCode
                 /\ ~Usable(h[r].supplied_code) => h'[r].discount_amount = 0
          /\ (Validates(r) /\ h[r].supplied_code = NoCode) => h'[r].coupon_code = NoCode
          /\ Commits(r) =>
                 /\ Committed(r) # {}
                 /\ \A o \in Committed(r) :
                        /\ o.coupon_code = h[r].coupon_code
                        /\ o.coupon_code = NoCode =>
                               o.discount_amount = 0 /\ coupons' = coupons
                        /\ o.coupon_code # NoCode =>
                               coupons' = {IF c.id = h[r].coupon.id
                                           THEN [c EXCEPT !.uses_count = c.uses_count + 1]
                                           ELSE c : c \in coupons}]_vars

\* an order placed with a valid coupon of 0 percent keeps the code, has no
\* discount and used the coupon's only use, and a later order that sent the
\* code is stored without it
C23_Witness ==
    /\ \E c \in coupons :
           /\ c.code = "SAVE" /\ c.discount_percentage = <<0>>
           /\ c.max_uses = <<1>> /\ c.uses_count = 1
    /\ \E o \in orders : o.coupon_code = "SAVE" /\ o.discount_amount = 0
    /\ \E r \in Handlers :
           /\ Placed(r) /\ h[r].supplied_code = "SAVE"
           /\ \E o \in PlacedOrder(r) : o.coupon_code = NoCode

\* no request in flight holds an uncommitted order with this id
Settled(order_id) == \A r \in Handlers : \A o \in tx[r].orders : o.id # order_id

\* a status update of this order to this value can be answered this way
StatusAnswer(order_id, new_status, status) ==
    update_order_status(order_id, new_status) /\ canteen_resp'.status = status

\* a status update answered otherwise than with one of these, or one that
\* changes an order
StatusEscapes(order_id, new_status, answers) ==
    /\ update_order_status(order_id, new_status)
    /\ canteen_resp'.status \notin answers \/ orders' # orders

\* a status update that gives the order this status and only that
StatusReplaced(o, new_status) ==
    /\ update_order_status(o.id, new_status)
    /\ canteen_resp'.status = 200
    /\ orders' = (orders \ {o}) \cup {[o EXCEPT !.status = new_status]}

\* C24: every order's status is one of the five values; a status update with
\* a missing or other value can only be answered 400 and changes no order;
\* one with a valid value addressed to an id no order has can only be
\* answered 404 (or 500 when the database fails) and changes no order; and
\* any of the five values can replace any other on an existing order.
C24_StatusEnum ==
    /\ [](\A o \in orders : o.status \in valid_statuses)
    /\ [](\A order_id \in 1..MaxOrders, new_status \in Statuses :
             IF new_status \notin
                    {"Pending", "Preparing", "Ready for Pickup", "Completed", "Cancelled"}
             THEN /\ ENABLED StatusAnswer(order_id, new_status, 400)
                  /\ ~ENABLED StatusEscapes(order_id, new_status, {400})
             ELSE IF \A o \in orders : o.id # order_id
             THEN /\ Settled(order_id) => ENABLED StatusAnswer(order_id, new_status, 404)
                  /\ ~ENABLED StatusEscapes(order_id, new_status, {404, 500})
             ELSE \A o \in orders :
                      (o.id = order_id /\ o.status # new_status) =>
                          ENABLED StatusReplaced(o, new_status))

\* an order placed with the coupon has been set to Completed, and the last
\* update, addressed to an id no order has, was answered 404
C24_Witness ==
    /\ canteen_resp.op = "update_order_status"
    /\ canteen_resp.status = 404
    /\ \A o \in orders : o.id # canteen_resp.id
    /\ \E o \in orders : o.status = "Completed" /\ o.coupon_code = "SAVE"

\* the step is an Add to Cart of this item
Added(item_id) ==
    LET cart == session.cart
    IN  IF \E i \in 1..Len(cart) : cart[i].menu_item_id = item_id
        THEN /\ Len(session'.cart) = Len(cart)
             /\ \A i \in 1..Len(cart) :
                    /\ session'.cart[i].menu_item_id = cart[i].menu_item_id
                    /\ session'.cart[i].quantity =
                           IF cart[i].menu_item_id = item_id
                           THEN cart[i].quantity + 1 ELSE cart[i].quantity
        ELSE session'.cart = cart \o <<[menu_item_id |-> item_id, quantity |-> 1]>>

\* the step ends the UI's wait for the answer to Place Order
Answered == session.waiting /\ ~session'.waiting

\* the answer it got is that of a placed order
OrderPlaced == h[1].pc = "done" /\ resp[1].status = 201

\* C25: every entry of the student UI's cart has a quantity of at least 1 and
\* an item of its own; a step that changes the cart either adds an item
\* (one more of an entry already there, or a new entry of quantity 1), or
\* empties the cart on the answer of a placed order, on a login or on a
\* logout; a Place Order that fails (an error answer or no answer) leaves the
\* cart as it was.
C25_CartOnlyGrowsOrEmpties ==
    /\ [](\A i \in 1..Len(session.cart) :
             /\ session.cart[i].quantity >= 1
             /\ \A j \in 1..Len(session.cart) :
                    session.cart[j].menu_item_id = session.cart[i].menu_item_id
                        => j = i)
    /\ [][/\ session'.cart # session.cart =>
                 \/ \E item_id \in MenuIds : Added(item_id)
                 \/ /\ session'.cart = <<>>
                    /\ \/ Answered /\ OrderPlaced
                       \/ ~session.logged_in /\ session'.logged_in
                       \/ session.logged_in /\ ~session'.logged_in
          /\ (Answered /\ ~OrderPlaced) => session'.cart = session.cart]_vars

\* a Place Order of a cart of two entries was refused because an item had
\* been taken off the menu, and the cart still holds the two entries
C25_Witness ==
    /\ session.logged_in /\ ~session.waiting
    /\ Len(session.cart) = 2
    /\ h[1].pc = "done" /\ resp[1].status = 400
    /\ h[1].items = session.cart
    /\ orders # {}

====
